---- MODULE Spec2Model ----
(***************************************************************************)
(* Model of scripts/fabric-pulse.py: the snapshot collector, the health    *)
(* evaluator, the drift detector and the Detect -> Report -> Fix -> Verify *)
(* driver in main().                                                       *)
(*                                                                         *)
(* Texts are sequences of characters over a three letter alphabet: one     *)
(* printable character, the space and the newline.  Python's str methods   *)
(* (splitlines, rstrip, strip, join) are modelled on these sequences.      *)
(***************************************************************************)
EXTENDS Integers, Sequences, FiniteSets, TLC

VARIABLES
    tpc,          \* position of the text-level harness: "input" | "detected" | "renormalized"
    raw_golden,   \* raw content of the baseline file
    raw_running,  \* raw text answered by the device to "show running-config"
    tgolden,      \* load_golden_config(path)
    trunning,     \* running_config(node)
    tdiff,        \* config_diff(golden, running, hostname)
    tdrift,       \* result["drift"]
    tagain        \* the two normalizations applied to their own output

textVars == <<tpc, raw_golden, raw_running, tgolden, trunning, tdiff, tdrift, tagain>>

VARIABLES
    spc,          \* position of the snapshot harness: "input" | "collected" | "rendered"
    senv,         \* what the device answers to each query of collect_snapshot
    snap,         \* the Snapshot returned by collect_snapshot
    health        \* health_color(snap.cpu, snap.temperature) as used by build_dashboard

snapVars == <<spc, senv, snap, health>>

VARIABLES
    pc,           \* position of main(): "start" | "snapshot" | "sleep" | "detect" |
                  \* "prompt" | "restore" | "replace" | "verify" | "done"
    args,         \* parsed command line: [watch, no_restore]
    inventory,    \* what "ansible-inventory --list" answers: [rc, json, inv]
    devices,      \* list[Device] returned by load_inventory_devices
    idx,          \* index of the device the current loop is at
    partial,      \* the list a running list comprehension has built so far
    snapshots,    \* main's snapshots (<<>> until the first comprehension completes)
    cycles,       \* completed iterations of the watch loop
    drift_data,   \* detect_drift's results of the pass being built: name -> result
    drifted,      \* main's drifted list
    answer,       \* what Confirm.ask returned: "none" | "yes" | "no"
    outcomes,     \* (name, ok, message) of every restore_golden call, in order
    all_ok,       \* main's all_ok
    post_drift,   \* results of the verifying detect_drift pass: name -> result
    ret,          \* main's return value, -1 while it runs
    golden,       \* baseline files: name -> [exists, content]
    flash,        \* staged files <flash_root>/<name>/flash/golden-<name>.cfg
    live,         \* raw text each device answers to "show running-config"
    sessions,     \* per device, the phases in which node_for_device was called
    cmds          \* per device, the configuration commands it has executed

mainVars == <<pc, args, inventory, devices, idx, partial, snapshots, cycles,
              drift_data, drifted, answer, outcomes, all_ok, post_drift, ret,
              golden, flash, live, sessions, cmds>>

VARIABLES
    ipc,          \* position of the group resolution: "start" | "call" | "loop" |
                  \* "return" | "done"
    iinv,         \* the parsed inventory: group -> [hosts, children]
    icallee,      \* the group_name collect_hosts is being called with
    istack,       \* frames of the running collect_hosts calls: [group, children, hosts]
    iseen,        \* the seen set shared by the recursion
    iret,         \* the set the last finished call returned
    ibody,        \* per group, how often the body of collect_hosts ran for it
    iresult       \* group_hosts, the sorted host list

invVars == <<ipc, iinv, icallee, istack, iseen, iret, ibody, iresult>>

VARIABLES
    qpc,          \* position of a per-device loop: "loop" | "done"
    qphase,       \* the phase the loop belongs to: "snapshot" | "detect" | "remediate"
    qdevices,     \* the device names the loop runs over
    qidx,         \* index of the device the loop is at
    qcall,        \* the device whose network call is in flight, "" when none
    qwaited,      \* time units the call in flight has been waiting for its answer
    qfinished     \* (name, outcome) of the finished calls, in order

stallVars == <<qpc, qphase, qdevices, qidx, qcall, qwaited, qfinished>>

vars == <<textVars, snapVars, mainVars, invVars, stallVars>>

-----------------------------------------------------------------------------
(* Bounds *)

MaxLen == 4

\* iterations of the watch loop explored before the operator interrupts
MaxCycles == 1

\* frames of collect_hosts explored before the recursion is cut off
MaxDepth == 5

-----------------------------------------------------------------------------
(* Python str primitives *)

NL == "\n"
SP == " "

Alphabet == {"a", SP, NL}

Whitespace == {SP, NL}

RECURSIVE TextsOfLen(_)
TextsOfLen(n) ==
    IF n = 0 THEN {<<>>}
    ELSE {Append(t, c) : t \in TextsOfLen(n - 1), c \in Alphabet}

Texts == UNION {TextsOfLen(n) : n \in 0..MaxLen}

\* index of the first newline of t, 0 when there is none
RECURSIVE FirstNL(_, _)
FirstNL(t, i) ==
    IF i > Len(t) THEN 0
    ELSE IF t[i] = NL THEN i
    ELSE FirstNL(t, i + 1)

\* str.splitlines(): lines without their terminator, no empty last line
RECURSIVE splitlines(_)
splitlines(t) ==
    IF t = <<>> THEN <<>>
    ELSE LET i == FirstNL(t, 1)
         IN  IF i = 0 THEN <<t>>
             ELSE <<SubSeq(t, 1, i - 1)>> \o splitlines(SubSeq(t, i + 1, Len(t)))

\* str.rstrip(): drop trailing whitespace
RECURSIVE rstrip(_)
rstrip(t) ==
    IF t = <<>> THEN <<>>
    ELSE IF t[Len(t)] \in Whitespace THEN rstrip(SubSeq(t, 1, Len(t) - 1))
    ELSE t

\* str.lstrip(): drop leading whitespace
RECURSIVE lstrip(_)
lstrip(t) ==
    IF t = <<>> THEN <<>>
    ELSE IF t[1] \in Whitespace THEN lstrip(Tail(t))
    ELSE t

\* str.strip()
strip(t) == lstrip(rstrip(t))

\* "\n".join(lines)
RECURSIVE join(_)
join(lines) ==
    IF lines = <<>> THEN <<>>
    ELSE IF Len(lines) = 1 THEN lines[1]
    ELSE lines[1] \o <<NL>> \o join(Tail(lines))

MapRstrip(lines) == [k \in 1..Len(lines) |-> rstrip(lines[k])]

-----------------------------------------------------------------------------
(* Drift detector: normalization and diff *)

\* variant: the text is not normalized, only the newline is appended
AppendNewline(text) == text \o <<NL>>

\* running_config: the normalization applied to the live text
NormalizeRunning(text) == strip(join(MapRstrip(splitlines(text)))) \o <<NL>>

\* load_golden_config: the normalization applied to the baseline text
NormalizeGolden(text) == strip(join(splitlines(text))) \o <<NL>>

Min(a, b) == IF a < b THEN a ELSE b

\* length of the longest common prefix of two line lists
RECURSIVE CommonPrefix(_, _, _)
CommonPrefix(a, b, k) ==
    IF k < Len(a) /\ k < Len(b) /\ a[k + 1] = b[k + 1]
    THEN CommonPrefix(a, b, k + 1)
    ELSE k

\* length of the longest common suffix that does not overlap the prefix p
RECURSIVE CommonSuffix(_, _, _, _)
CommonSuffix(a, b, p, k) ==
    IF k < Len(a) - p /\ k < Len(b) - p /\ a[Len(a) - k] = b[Len(b) - k]
    THEN CommonSuffix(a, b, p, k + 1)
    ELSE k

FromHeader == <<"-", "-", "-">>
ToHeader == <<"+", "+", "+">>
HunkHeader == <<"@", "@">>

Mark(m, lines) == [k \in 1..Len(lines) |-> <<m>> \o lines[k]]

\* difflib.unified_diff(a, b, n=2, lineterm=""): nothing for equal line
\* lists; otherwise the two file headers, a hunk header and the hunk.
\* difflib aligns the lists by longest matching blocks; here the hunk is
\* the changed region between the common prefix and the common suffix, with
\* up to two lines of context on each side, which is the same hunk when
\* the change is one contiguous region.  The result is empty exactly when
\* the line lists are equal, which is all detect_drift looks at.
unified_diff(a, b) ==
    IF a = b THEN <<>>
    ELSE LET p  == CommonPrefix(a, b, 0)
             s  == CommonSuffix(a, b, p, 0)
             cb == Min(2, p)
             ca == Min(2, s)
         IN  <<FromHeader, ToHeader, HunkHeader>>
             \o Mark(SP, SubSeq(a, p - cb + 1, p))
             \o Mark("-", SubSeq(a, p + 1, Len(a) - s))
             \o Mark("+", SubSeq(b, p + 1, Len(b) - s))
             \o Mark(SP, SubSeq(a, Len(a) - s + 1, Len(a) - s + ca))

config_diff(golden_text, running_text) ==
    unified_diff(splitlines(golden_text), splitlines(running_text))


-----------------------------------------------------------------------------
(* Values answered by a device, Python exceptions and dictionaries         *)
(*                                                                         *)
(* A JSON value is tagged: [int |-> n], [float |-> hundredths],            *)
(* [txt |-> text], [items |-> seq] (a dict, by its values), [list |-> seq] *)
(* A dict with named keys is a function from key to value.  The outcome of *)
(* a call is [raise |-> message] or [ret |-> value].                       *)

NA == <<"n", "/", "a">>

Raised(o) == "raise" \in DOMAIN o

IsInt(v) == "int" \in DOMAIN v
IsNumber(v) == "int" \in DOMAIN v \/ "float" \in DOMAIN v
IsDict(v) == "items" \in DOMAIN v

\* a number in hundredths
Hundredths(v) == IF IsInt(v) THEN 100 * v.int ELSE v.float

HasKey(d, k) == k \in DOMAIN d

Digits == <<"0", "1", "2", "3", "4", "5", "6", "7", "8", "9">>

DigitSet == {Digits[k] : k \in 1..10}

DigitVal(c) == (CHOOSE k \in 1..10 : Digits[k] = c) - 1

\* str(n) for a natural number
RECURSIVE NatText(_)
NatText(n) ==
    IF n < 10 THEN <<Digits[n + 1]>>
    ELSE NatText(n \div 10) \o <<Digits[(n % 10) + 1]>>

Abs(n) == IF n < 0 THEN -n ELSE n

\* rounding of hundredths to tenths as done by the format spec ".1f"
\* (nearest; an exact decimal tie is resolved to the even digit)
RoundTenths(h) ==
    LET q == h \div 10
        r == h % 10
    IN  IF r < 5 THEN q
        ELSE IF r > 5 THEN q + 1
        ELSE IF q % 2 = 0 THEN q ELSE q + 1

\* f"{value:.1f}"
Format1f(h) ==
    LET t == RoundTenths(Abs(h))
    IN  (IF h < 0 THEN <<"-">> ELSE <<>>)
        \o NatText(t \div 10) \o <<".">> \o <<Digits[(t % 10) + 1]>>

\* str.rstrip(chars)
RECURSIVE rstripChars(_, _)
rstripChars(t, chars) ==
    IF t = <<>> THEN <<>>
    ELSE IF t[Len(t)] \in chars THEN rstripChars(SubSeq(t, 1, Len(t) - 1), chars)
    ELSE t

AllDigits(t) == \A k \in 1..Len(t) : t[k] \in DigitSet

RECURSIVE NatOf(_)
NatOf(t) ==
    IF t = <<>> THEN 0
    ELSE 10 * NatOf(SubSeq(t, 1, Len(t) - 1)) + DigitVal(t[Len(t)])

RECURSIVE FirstDot(_, _)
FirstDot(t, i) ==
    IF i > Len(t) THEN 0
    ELSE IF t[i] = "." THEN i
    ELSE FirstDot(t, i + 1)

\* float(text) for decimal literals with at most one fractional digit, in
\* tenths: [ok |-> TRUE, tenths |-> n], or [ok |-> FALSE] for ValueError
ParseFloat(t) ==
    LET neg  == t # <<>> /\ t[1] = "-"
        body == IF neg THEN Tail(t) ELSE t
        dot  == FirstDot(body, 1)
        ip   == IF dot = 0 THEN body ELSE SubSeq(body, 1, dot - 1)
        fp   == IF dot = 0 THEN <<>> ELSE SubSeq(body, dot + 1, Len(body))
        good == /\ AllDigits(ip)
                /\ AllDigits(fp)
                /\ Len(ip) + Len(fp) > 0
                /\ Len(fp) <= 1
        mag  == 10 * NatOf(ip) + NatOf(fp)
    IN  IF good THEN [ok |-> TRUE, tenths |-> IF neg THEN -mag ELSE mag]
        ELSE [ok |-> FALSE]

-----------------------------------------------------------------------------
(* Snapshot collector *)

\* format_uptime
format_uptime(seconds) ==
    IF ~IsInt(seconds) THEN NA
    ELSE LET days    == seconds.int \div 86400
             rem     == seconds.int % 86400
             hours   == rem \div 3600
             minutes == (rem % 3600) \div 60
         IN  NatText(days) \o <<"d", " ">> \o NatText(hours) \o <<"h", " ">>
             \o NatText(minutes) \o <<"m">>

CpuKeys == <<"cpu", "cpuUtilization", "cpuTotal">>

\* read_cpu, given the outcome of command_json(node, "show processes top once")
read_cpu(o) ==
    IF Raised(o) THEN NA
    ELSE LET hits == SelectSeq(CpuKeys, LAMBDA k : HasKey(o.ret, k) /\ IsNumber(o.ret[k]))
         IN  IF hits # <<>> THEN Format1f(Hundredths(o.ret[hits[1]])) \o <<"%">>
             ELSE NA

TempSections == <<"cardSlots", "powerSupplySlots", "tempSensors">>

\* the dict-valued sections of the answer, in the order they are read
DictSections(d) ==
    SelectSeq(TempSections, LAMBDA s : HasKey(d, s) /\ IsDict(d[s]))

\* every item of every dict-valued section
RECURSIVE SectionItems(_, _)
SectionItems(d, secs) ==
    IF secs = <<>> THEN <<>>
    ELSE d[secs[1]].items \o SectionItems(d, Tail(secs))

RECURSIVE MaxOf(_)
MaxOf(q) ==
    IF Len(q) = 1 THEN q[1]
    ELSE LET m == MaxOf(Tail(q)) IN IF q[1] >= m THEN q[1] ELSE m

\* read_temperature, given the outcome of
\* command_json(node, "show system environment temperature")
read_temperature(o) ==
    IF Raised(o) THEN NA
    ELSE LET items == SectionItems(o.ret, DictSections(o.ret))
             \* item.get raises AttributeError on an item that is no dict
             bad   == \E k \in 1..Len(items) : ~IsDict(items[k])
             nums  == SelectSeq(items, LAMBDA it :
                          /\ IsDict(it)
                          /\ HasKey(it.items, "currentTemperature")
                          /\ IsNumber(it.items["currentTemperature"]))
             temps == [k \in 1..Len(nums) |-> Hundredths(nums[k].items["currentTemperature"])]
         IN  IF bad THEN NA
             ELSE IF temps # <<>> THEN Format1f(MaxOf(temps)) \o <<"C">>
             ELSE NA

Established == <<"E", "s", "t">>

RECURSIVE SumLen(_)
SumLen(q) == IF q = <<>> THEN 0 ELSE Len(q[1]) + SumLen(Tail(q))

\* read_bgp_status, given the outcome of command_json(node, "show ip bgp summary");
\* the answer is [vrfs |-> sequence of vrf], a vrf is [items |-> [peers |->
\* sequence of peerState]] or a value that is no dict
read_bgp_status(o) ==
    IF Raised(o) THEN NA
    ELSE IF ~HasKey(o.ret, "vrfs") THEN NA
    ELSE LET vrfs  == o.ret["vrfs"]
             bad   == \E k \in 1..Len(vrfs) : ~IsDict(vrfs[k])
             peers == [k \in 1..Len(vrfs) |->
                          IF IsDict(vrfs[k]) /\ HasKey(vrfs[k].items, "peers")
                          THEN vrfs[k].items["peers"] ELSE <<>>]
             total == SumLen(peers)
             established == SumLen([k \in 1..Len(peers) |->
                                       SelectSeq(peers[k], LAMBDA st : st = Established)])
         IN  IF bad THEN NA
             ELSE IF total = 0 THEN NA
             ELSE NatText(established) \o <<"/">> \o NatText(total) \o <<" ", "u", "p">>

Disabled == <<"d", "i", "s", "a", "b", "l", "e", "d">>

\* truthiness of dict.get(key) for text values
Truthy(d, k) == HasKey(d, k) /\ d[k].txt # <<>>

\* read_mlag_status, given the outcome of command_json(node, "show mlag")
read_mlag_status(o) ==
    IF Raised(o) THEN NA
    ELSE IF Truthy(o.ret, "state") THEN o.ret["state"].txt
    ELSE IF Truthy(o.ret, "mlagState") THEN o.ret["mlagState"].txt
    ELSE Disabled

\* variant: the thresholds are exclusive
health_color_exclusive(cpu_text, temp_text) ==
    LET cpu_value  == ParseFloat(rstripChars(cpu_text, {"%"}))
        temp_value == ParseFloat(rstripChars(temp_text, {"C"}))
    IN  IF cpu_value.ok /\ cpu_value.tenths > 800 THEN "red"
        ELSE IF temp_value.ok /\ temp_value.tenths > 800 THEN "red"
        ELSE IF ~cpu_value.ok /\ ~temp_value.ok THEN "yellow"
        ELSE "green"

\* health_color
health_color(cpu_text, temp_text) ==
    LET cpu_value  == ParseFloat(rstripChars(cpu_text, {"%"}))
        temp_value == ParseFloat(rstripChars(temp_text, {"C"}))
    IN  IF cpu_value.ok /\ cpu_value.tenths >= 800 THEN "red"
        ELSE IF temp_value.ok /\ temp_value.tenths >= 800 THEN "red"
        ELSE IF ~cpu_value.ok /\ ~temp_value.ok THEN "yellow"
        ELSE "green"

\* str(version.get(key, "n/a"))
VersionField(d, k) == IF HasKey(d, k) THEN d[k].txt ELSE NA

Unreachable(name, exc) ==
    [name |-> name, model |-> NA, version |-> NA, uptime |-> NA, cpu |-> NA,
     temperature |-> NA, bgp |-> NA, mlag |-> NA, reachable |-> FALSE,
     error |-> exc.raise]

\* collect_snapshot; env holds the outcome of node_for_device and of the
\* command_json call of each query
collect_snapshot(name, env) ==
    IF Raised(env.connect) THEN Unreachable(name, env.connect)
    ELSE IF Raised(env.version) THEN Unreachable(name, env.version)
    ELSE [name        |-> name,
          model       |-> VersionField(env.version.ret, "modelName"),
          version     |-> VersionField(env.version.ret, "version"),
          uptime      |-> format_uptime(IF HasKey(env.version.ret, "uptime")
                                        THEN env.version.ret["uptime"]
                                        ELSE [none |-> TRUE]),
          cpu         |-> read_cpu(env.cpu),
          temperature |-> read_temperature(env.temp),
          bgp         |-> read_bgp_status(env.bgp),
          mlag        |-> read_mlag_status(env.mlag),
          reachable   |-> TRUE,
          error       |-> <<>>]

-----------------------------------------------------------------------------
(* Answers of a device to the queries of collect_snapshot *)

ConnRefused == <<"r", "e", "f", "u", "s", "e", "d">>
NoMessage == <<>>

\* str(exc) of the exceptions a session can raise; an exception constructed
\* without arguments has the empty text
ExcTexts == {ConnRefused, NoMessage}

Exceptions == {[raise |-> m] : m \in ExcTexts}

Ret(v) == [ret |-> v]

EmptyDict == <<>>

Txt(t) == [txt |-> t]

ModelName == <<"c", "E", "O", "S">>
EosVersion == <<"4", ".", "3", "0">>

VersionAnswers ==
    {Ret([modelName |-> Txt(ModelName), version |-> Txt(EosVersion), uptime |-> [int |-> 93784]]),
     Ret([modelName |-> Txt(ModelName), uptime |-> [float |-> 9378400]]),
     Ret(EmptyDict)}

CpuAnswers ==
    {Ret([cpu |-> [float |-> 1250]]),
     Ret([cpuUtilization |-> [float |-> 7994]]),
     Ret([cpu |-> Txt(NA), cpuTotal |-> [float |-> 7996]]),
     Ret([cpu |-> [int |-> 80]]),
     Ret([cpu |-> [float |-> 9310]]),
     Ret(EmptyDict)}

Sensor(v) == [items |-> [currentTemperature |-> v]]

TempAnswers ==
    {Ret([tempSensors |-> [items |-> <<Sensor([float |-> 4120]), Sensor([int |-> 35])>>]]),
     Ret([cardSlots |-> [items |-> <<Sensor([float |-> 7994])>>],
          powerSupplySlots |-> [items |-> <<Sensor([float |-> 7996])>>]]),
     Ret([cardSlots |-> [items |-> <<Sensor([int |-> 80]), Sensor(Txt(NA))>>]]),
     Ret([tempSensors |-> [items |-> <<Sensor([float |-> 8550]), [items |-> EmptyDict]>>]]),
     Ret([tempSensors |-> [list |-> <<Sensor([float |-> 8550])>>]]),
     Ret([tempSensors |-> [items |-> <<Sensor([float |-> 4120]), [int |-> 7]>>]]),
     Ret(EmptyDict)}

Idle == <<"I", "d", "l", "e">>

Vrf(peers) == [items |-> [peers |-> peers]]

BgpAnswers ==
    {Ret([vrfs |-> <<Vrf(<<Established, Idle>>), Vrf(<<Established>>)>>]),
     Ret([vrfs |-> <<Vrf(<<Idle>>)>>]),
     Ret([vrfs |-> <<Vrf(<<Established>>), [int |-> 0]>>]),
     Ret([vrfs |-> <<>>]),
     Ret(EmptyDict)}

Active == <<"a", "c", "t", "i", "v", "e">>
Inactive == <<"i", "n", "a", "c", "t", "i", "v", "e">>

MlagAnswers ==
    {Ret([state |-> Txt(Active)]),
     Ret([state |-> Txt(<<>>), mlagState |-> Txt(Inactive)]),
     Ret(EmptyDict)}

SnapEnvs ==
    [connect : {Ret(EmptyDict)} \cup Exceptions,
     version : VersionAnswers \cup Exceptions,
     cpu     : CpuAnswers \cup {[raise |-> ConnRefused]},
     temp    : TempAnswers \cup {[raise |-> ConnRefused]},
     bgp     : BgpAnswers \cup {[raise |-> ConnRefused]},
     mlag    : MlagAnswers \cup {[raise |-> ConnRefused]}]

NoSnap == [reachable |-> FALSE, none |-> TRUE]

-----------------------------------------------------------------------------
(* Device directory: load_inventory_devices *)

Group == "FABRIC"

\* sorted() over the host names of the model
HostOrder == <<"leaf1", "leaf2">>

Hosts == {HostOrder[k] : k \in 1..Len(HostOrder)}

Get(d, k, default) == IF k \in DOMAIN d THEN d[k] ELSE default

RECURSIVE collect_hosts(_, _, _)
RECURSIVE collect_children(_, _, _, _)

\* collect_hosts(group_name, seen): the hosts found and the seen set as the
\* call leaves it (seen is one mutable set shared by the whole recursion)
collect_hosts(inv, group_name, seen) ==
    IF group_name \in seen THEN [hosts |-> {}, seen |-> seen]
    ELSE LET group_data == Get(inv, group_name, EmptyDict)
             hosts      == Get(group_data, "hosts", <<>>)
         IN  collect_children(inv, Get(group_data, "children", <<>>),
                              {hosts[k] : k \in 1..Len(hosts)},
                              seen \cup {group_name})

\* the for loop over group_data["children"]
collect_children(inv, children, hosts, seen) ==
    IF children = <<>> THEN [hosts |-> hosts, seen |-> seen]
    ELSE LET r == collect_hosts(inv, children[1], seen)
         IN  collect_children(inv, Tail(children), hosts \cup r.hosts, r.seen)

sorted(hosts) == SelectSeq(HostOrder, LAMBDA h : h \in hosts)

QueryFailed == <<"q", "u", "e", "r", "y">>
BadJson == <<"j", "s", "o", "n">>
GroupNotFound == <<"g", "r", "o", "u", "p">>

\* load_inventory_devices: [raise |-> message] or [ret |-> list of Device]
load_inventory_devices(inventory_out, group) ==
    IF inventory_out.rc # 0 THEN [raise |-> QueryFailed]
    ELSE IF ~inventory_out.json THEN [raise |-> BadJson]
    ELSE IF group \notin DOMAIN inventory_out.inv THEN [raise |-> GroupNotFound]
    ELSE LET inv         == inventory_out.inv
             group_hosts == sorted(collect_hosts(inv, group, {}).hosts)
             hostvars    == Get(Get(inv, "_meta", EmptyDict), "hostvars", EmptyDict)
         IN  [ret |-> [k \in 1..Len(group_hosts) |->
                          [name |-> group_hosts[k],
                           host |-> Get(Get(hostvars, group_hosts[k], EmptyDict),
                                        "ansible_host", group_hosts[k])]]]

Meta == [hostvars |-> [leaf1 |-> [ansible_host |-> "10.0.0.1"]]]

\* answers of the inventory query
Inventories ==
    {[rc |-> 1, json |-> FALSE, inv |-> EmptyDict],
     [rc |-> 0, json |-> FALSE, inv |-> EmptyDict],
     [rc |-> 0, json |-> TRUE, inv |-> [LAB |-> [hosts |-> <<"leaf1">>], _meta |-> Meta]],
     [rc |-> 0, json |-> TRUE, inv |-> [FABRIC |-> [children |-> <<"SPINES">>], _meta |-> Meta]],
     [rc |-> 0, json |-> TRUE, inv |-> [FABRIC |-> [hosts |-> <<"leaf2">>], _meta |-> Meta]],
     [rc |-> 0, json |-> TRUE,
      inv |-> [FABRIC |-> [hosts |-> <<"leaf1">>, children |-> <<"LEAFS", "FABRIC">>],
               LEAFS  |-> [hosts |-> <<"leaf2", "leaf1">>, children |-> <<"FABRIC", "LEAFS">>],
               _meta  |-> Meta]]}

-----------------------------------------------------------------------------
(* Group resolution, step by step: the recursion of collect_hosts *)

GroupOrder == <<"FABRIC", "LEAFS", "SPINES">>

Groups == {GroupOrder[k] : k \in 1..Len(GroupOrder)}

ChildList(set) == SelectSeq(GroupOrder, LAMBDA g : g \in set)

\* inventories over three groups with every child relation, cycles included
GroupInventories ==
    {[FABRIC |-> [hosts |-> fh, children |-> ChildList(c["FABRIC"])],
      LEAFS  |-> [hosts |-> <<"leaf2", "leaf1">>, children |-> ChildList(c["LEAFS"])],
      SPINES |-> [hosts |-> <<"leaf2">>, children |-> ChildList(c["SPINES"])]] :
        fh \in {<<>>, <<"leaf1">>}, c \in [Groups -> SUBSET Groups]}

IdleInv ==
    /\ ipc = "idle"
    /\ iinv = EmptyDict
    /\ icallee = ""
    /\ istack = <<>>
    /\ iseen = {}
    /\ iret = {}
    /\ ibody = [g \in Groups |-> 0]
    /\ iresult = <<>>

InitInvVars ==
    /\ ipc = "start"
    /\ iinv \in GroupInventories
    /\ icallee = ""
    /\ istack = <<>>
    /\ iseen = {}
    /\ iret = {}
    /\ ibody = [g \in Groups |-> 0]
    /\ iresult = <<>>

\* variant: a group is never recognised as seen
NeverSeen(group_name, seen) == FALSE

\* collect_hosts, line 83: if group_name in seen
AlreadySeen(group_name, seen) == group_name \in seen

\* load_inventory_devices, line 93: collect_hosts(group) is called
InvStart ==
    /\ ipc = "start"
    /\ icallee' = Group
    /\ ipc' = "call"
    /\ UNCHANGED <<iinv, istack, iseen, iret, ibody, iresult>>
    /\ UNCHANGED <<textVars, snapVars, mainVars, stallVars>>

\* collect_hosts, lines 81-88: a seen group returns set(); otherwise the
\* group is added to seen and its own hosts start the result
InvEnter ==
    /\ ipc = "call"
    /\ IF AlreadySeen(icallee, iseen)
       THEN /\ iret' = {}
            /\ ipc' = "return"
            /\ UNCHANGED <<istack, iseen, ibody>>
       ELSE /\ Len(istack) < MaxDepth
            /\ LET group_data == Get(iinv, icallee, EmptyDict)
                   hosts      == Get(group_data, "hosts", <<>>)
               IN  istack' = Append(istack,
                                    [group    |-> icallee,
                                     children |-> Get(group_data, "children", <<>>),
                                     hosts    |-> {hosts[k] : k \in 1..Len(hosts)}])
            /\ iseen' = iseen \cup {icallee}
            /\ ibody' = [ibody EXCEPT ![icallee] = @ + 1]
            /\ ipc' = "loop"
            /\ UNCHANGED iret
    /\ UNCHANGED <<iinv, icallee, iresult>>
    /\ UNCHANGED <<textVars, snapVars, mainVars, stallVars>>

\* collect_hosts, lines 89-91: the next child is visited, or hosts is returned
InvLoop ==
    /\ ipc = "loop"
    /\ LET top == istack[Len(istack)]
       IN  IF top.children = <<>>
           THEN /\ iret' = top.hosts
                /\ istack' = SubSeq(istack, 1, Len(istack) - 1)
                /\ ipc' = "return"
                /\ UNCHANGED icallee
           ELSE /\ icallee' = top.children[1]
                /\ istack' = [istack EXCEPT ![Len(istack)].children = Tail(@)]
                /\ ipc' = "call"
                /\ UNCHANGED iret
    /\ UNCHANGED <<iinv, iseen, ibody, iresult>>
    /\ UNCHANGED <<textVars, snapVars, mainVars, stallVars>>

\* a call returns: hosts.update(...) in the caller (line 90), or
\* sorted(collect_hosts(group)) in load_inventory_devices (line 93)
InvReturn ==
    /\ ipc = "return"
    /\ IF istack = <<>>
       THEN /\ iresult' = sorted(iret)
            /\ ipc' = "done"
            /\ UNCHANGED istack
       ELSE /\ istack' = [istack EXCEPT ![Len(istack)].hosts = @ \cup iret]
            /\ ipc' = "loop"
            /\ UNCHANGED iresult
    /\ UNCHANGED <<iinv, icallee, iseen, iret, ibody>>
    /\ UNCHANGED <<textVars, snapVars, mainVars, stallVars>>

-----------------------------------------------------------------------------
(* The per-device loops and the time a network call takes                   *)
(*                                                                         *)
(* The snapshot comprehension, the loop of detect_drift and the loop over   *)
(* drifted each visit the devices one after the other and call the device   *)
(* synchronously: the next iteration starts when the call has returned or   *)
(* has raised after the timeout of the connection.                          *)

\* node_for_device: timeout=30
Timeout == 30

Phases == {"snapshot", "detect", "remediate"}

IdleStall ==
    /\ qpc = "idle"
    /\ qphase = ""
    /\ qdevices = <<>>
    /\ qidx = 0
    /\ qcall = ""
    /\ qwaited = 0
    /\ qfinished = <<>>

InitStallVars ==
    /\ qpc = "loop"
    /\ qphase \in Phases
    /\ qdevices \in {HostOrder, SubSeq(HostOrder, 2, 2)}
    /\ qidx = 1
    /\ qcall = ""
    /\ qwaited = 0
    /\ qfinished = <<>>

Started(h) == \E k \in 1..Len(qdevices) : qdevices[k] = h /\ (k < qidx \/ qcall = h)

\* the operation of device h can start: the loop is at h and no call is in
\* flight
CanStart(h) ==
    /\ qpc = "loop"
    /\ qcall = ""
    /\ qidx <= Len(qdevices)
    /\ qdevices[qidx] = h

\* the loop body calls the device it is at
StartCall ==
    /\ qidx <= Len(qdevices)
    /\ CanStart(qdevices[qidx])
    /\ qcall' = qdevices[qidx]
    /\ qwaited' = 0
    /\ UNCHANGED <<qpc, qphase, qdevices, qidx, qfinished>>
    /\ UNCHANGED <<textVars, snapVars, mainVars, invVars>>

\* a time unit passes while the call waits for its answer
Tick ==
    /\ qcall # ""
    /\ qwaited < Timeout
    /\ qwaited' = qwaited + 1
    /\ UNCHANGED <<qpc, qphase, qdevices, qidx, qcall, qfinished>>
    /\ UNCHANGED <<textVars, snapVars, mainVars, invVars>>

\* the answer arrives and the loop moves to the next device
CallReturns ==
    /\ qcall # ""
    /\ qwaited < Timeout
    /\ qfinished' = Append(qfinished, [name |-> qcall, outcome |-> "answered", waited |-> qwaited])
    /\ qcall' = ""
    /\ qwaited' = 0
    /\ qidx' = qidx + 1
    /\ UNCHANGED <<qpc, qphase, qdevices>>
    /\ UNCHANGED <<textVars, snapVars, mainVars, invVars>>

\* the timeout expires: the call raises, the exception handler of the phase
\* records the failure and the loop moves to the next device
CallTimesOut ==
    /\ qcall # ""
    /\ qwaited = Timeout
    /\ qfinished' = Append(qfinished, [name |-> qcall, outcome |-> "timeout", waited |-> qwaited])
    /\ qcall' = ""
    /\ qwaited' = 0
    /\ qidx' = qidx + 1
    /\ UNCHANGED <<qpc, qphase, qdevices>>
    /\ UNCHANGED <<textVars, snapVars, mainVars, invVars>>

\* the loop has visited every device
LoopEnds ==
    /\ qpc = "loop"
    /\ qcall = ""
    /\ qidx > Len(qdevices)
    /\ qpc' = "done"
    /\ UNCHANGED <<qphase, qdevices, qidx, qcall, qwaited, qfinished>>
    /\ UNCHANGED <<textVars, snapVars, mainVars, invVars>>

-----------------------------------------------------------------------------
(* Snapshot harness: collect_snapshot and the row build_dashboard renders *)

IdleSnap ==
    /\ spc = "idle"
    /\ senv = <<>>
    /\ snap = NoSnap
    /\ health = "none"

InitSnapVars ==
    /\ spc = "input"
    /\ senv \in SnapEnvs
    /\ snap = NoSnap
    /\ health = "none"

Collect ==
    /\ spc = "input"
    /\ snap' = collect_snapshot("leaf1", senv)
    /\ spc' = "collected"
    /\ UNCHANGED <<senv, health>>
    /\ UNCHANGED <<textVars, mainVars, invVars, stallVars>>

\* build_dashboard: health_color is evaluated for reachable snapshots only
Render ==
    /\ spc = "collected"
    /\ health' = IF snap.reachable THEN health_color(snap.cpu, snap.temperature) ELSE "none"
    /\ spc' = "rendered"
    /\ UNCHANGED <<senv, snap>>
    /\ UNCHANGED <<textVars, mainVars, invVars, stallVars>>

-----------------------------------------------------------------------------
(* Drift detector: detect_drift, one device *)

\* the flash directory of a device before anything is staged; writes counts
\* the copies made into it
NoStaged == [exists |-> FALSE, content |-> <<>>, writes |-> 0]

\* stage_golden_to_flash: shutil.copyfile(golden_file, staged_path)
stage_golden_to_flash(staged, golden_file) ==
    [exists |-> TRUE, content |-> golden_file.content, writes |-> staged.writes + 1]

NoFile == [exists |-> FALSE, content |-> <<>>]

File(text) == [exists |-> TRUE, content |-> text]

NoReason == [text |-> "", detail |-> <<>>]

golden_file_path(hostname) == <<"build/configs", hostname, ".cfg">>

\* the result detect_drift stores for a device whose baseline file is absent
MissingResult(name) ==
    [drift |-> FALSE, reason |-> [text |-> "Golden config missing", detail |-> <<>>],
     diff |-> <<>>, golden_path |-> golden_file_path(name)]

\* variant: a failed fetch is reported as drift
TryResultDriftOnError(name, file, fetch) ==
    IF Raised(fetch)
    THEN [drift |-> TRUE,
          reason |-> [text |-> "Error reading running-config: ", detail |-> fetch.raise],
          diff |-> <<>>, golden_path |-> golden_file_path(name)]
    ELSE LET running_text == NormalizeRunning(fetch.ret)
             golden_text  == NormalizeGolden(file.content)
             diff         == config_diff(golden_text, running_text)
         IN  [drift |-> Len(diff) > 0, reason |-> NoReason,
              diff |-> diff, golden_path |-> golden_file_path(name)]

\* the result of detect_drift's try block: fetch is the outcome of
\* node_for_device and command_text(node, "show running-config")
TryResult(name, file, fetch) ==
    IF Raised(fetch)
    THEN [drift |-> FALSE,
          reason |-> [text |-> "Error reading running-config: ", detail |-> fetch.raise],
          diff |-> <<>>, golden_path |-> golden_file_path(name)]
    ELSE LET running_text == NormalizeRunning(fetch.ret)
             golden_text  == NormalizeGolden(file.content)
             diff         == config_diff(golden_text, running_text)
         IN  [drift |-> Len(diff) > 0, reason |-> NoReason,
              diff |-> diff, golden_path |-> golden_file_path(name)]

\* the outcomes of fetching the running-config of a device
Fetches(name) == {[ret |-> live[name]], [raise |-> ConnRefused]}

\* one iteration of detect_drift's loop, results being the dict built so far
\* variant: the session is opened before the baseline file is looked for
DetectOneSessionFirst(name, results, phase) ==
    /\ sessions' = [sessions EXCEPT ![name] = Append(@, phase)]
    /\ IF ~golden[name].exists
       THEN results' = (name :> MissingResult(name)) @@ results
       ELSE \E fetch \in Fetches(name) :
               results' = (name :> TryResult(name, golden[name], fetch)) @@ results

DetectOne(name, results, phase) ==
    IF ~golden[name].exists
    THEN /\ results' = (name :> MissingResult(name)) @@ results
         /\ UNCHANGED sessions
    ELSE \E fetch \in Fetches(name) :
            /\ results' = (name :> TryResult(name, golden[name], fetch)) @@ results
            /\ sessions' = [sessions EXCEPT ![name] = Append(@, phase)]

-----------------------------------------------------------------------------
(* main *)

\* what the devices answer to the snapshot queries during a run of main
RunSnapEnvs ==
    {[connect |-> Ret(EmptyDict),
      version |-> Ret([modelName |-> Txt(ModelName), version |-> Txt(EosVersion),
                       uptime |-> [int |-> 93784]]),
      cpu     |-> Ret([cpu |-> [float |-> 1250]]),
      temp    |-> [raise |-> ConnRefused],
      bgp     |-> Ret([vrfs |-> <<Vrf(<<Established>>)>>]),
      mlag    |-> Ret(EmptyDict)],
     [connect |-> [raise |-> ConnRefused],
      version |-> [raise |-> ConnRefused],
      cpu     |-> [raise |-> ConnRefused],
      temp    |-> [raise |-> ConnRefused],
      bgp     |-> [raise |-> ConnRefused],
      mlag    |-> [raise |-> ConnRefused]]}

Baseline == <<"a", NL>>

\* a baseline whose first line ends in a space
PaddedBaseline == <<"a", SP, NL, "a", NL>>

GoldenFiles == {NoFile, File(Baseline), File(PaddedBaseline)}

LiveTexts == {<<"a", SP, NL>>, <<"a", NL, "a", NL>>}

NoSessions == [h \in Hosts |-> <<>>]

InitMainVars ==
    /\ pc = "start"
    /\ args \in [watch : BOOLEAN, no_restore : BOOLEAN]
    /\ inventory \in Inventories
    /\ devices = <<>>
    /\ idx = 0
    /\ partial = <<>>
    /\ snapshots = <<>>
    /\ cycles = 0
    /\ drift_data = <<>>
    /\ drifted = <<>>
    /\ answer = "none"
    /\ outcomes = <<>>
    /\ all_ok = TRUE
    /\ post_drift = <<>>
    /\ ret = -1
    /\ golden \in [Hosts -> GoldenFiles]
    /\ flash = [h \in Hosts |-> NoStaged]
    /\ live \in [Hosts -> LiveTexts]
    /\ sessions = NoSessions
    /\ cmds = NoSessions

IdleMain ==
    /\ pc = "idle"
    /\ args = [watch |-> FALSE, no_restore |-> FALSE]
    /\ inventory = [rc |-> 1, json |-> FALSE, inv |-> EmptyDict]
    /\ devices = <<>>
    /\ idx = 0
    /\ partial = <<>>
    /\ snapshots = <<>>
    /\ cycles = 0
    /\ drift_data = <<>>
    /\ drifted = <<>>
    /\ answer = "none"
    /\ outcomes = <<>>
    /\ all_ok = TRUE
    /\ post_drift = <<>>
    /\ ret = -1
    /\ golden = [h \in Hosts |-> NoFile]
    /\ flash = [h \in Hosts |-> NoStaged]
    /\ live = [h \in Hosts |-> <<>>]
    /\ sessions = NoSessions
    /\ cmds = NoSessions

\* variant: an empty device list is not rejected
LoadInventoryNoEmptyCheck ==
    /\ pc = "start"
    /\ LET r == load_inventory_devices(inventory, Group)
       IN  IF Raised(r) THEN
               /\ ret' = 2
               /\ pc' = "done"
               /\ UNCHANGED <<devices, idx>>
           ELSE
               /\ devices' = r.ret
               /\ pc' = "snapshot"
               /\ idx' = 1
               /\ UNCHANGED ret
    /\ UNCHANGED <<args, inventory, partial, snapshots, cycles, drift_data, drifted,
                   answer, outcomes, all_ok, post_drift, golden, flash, live,
                   sessions, cmds>>
    /\ UNCHANGED <<textVars, snapVars, invVars, stallVars>>

\* main, lines 428-436: resolve the device list or return 2
LoadInventory ==
    /\ pc = "start"
    /\ LET r == load_inventory_devices(inventory, Group)
       IN  IF Raised(r) THEN
               /\ ret' = 2
               /\ pc' = "done"
               /\ UNCHANGED <<devices, idx>>
           ELSE IF r.ret = <<>> THEN
               /\ ret' = 2
               /\ pc' = "done"
               /\ devices' = r.ret
               /\ UNCHANGED idx
           ELSE
               /\ devices' = r.ret
               /\ pc' = "snapshot"
               /\ idx' = 1
               /\ UNCHANGED ret
    /\ UNCHANGED <<args, inventory, partial, snapshots, cycles, drift_data, drifted,
                   answer, outcomes, all_ok, post_drift, golden, flash, live,
                   sessions, cmds>>
    /\ UNCHANGED <<textVars, snapVars, invVars, stallVars>>

\* one element of [collect_snapshot(device, args) for device in devices]
SnapshotStep ==
    /\ pc = "snapshot"
    /\ idx <= Len(devices)
    /\ \E env \in RunSnapEnvs :
          partial' = Append(partial, collect_snapshot(devices[idx].name, env))
    /\ sessions' = [sessions EXCEPT ![devices[idx].name] = Append(@, "snapshot")]
    /\ idx' = idx + 1
    /\ UNCHANGED <<pc, args, inventory, devices, snapshots, cycles, drift_data, drifted,
                   answer, outcomes, all_ok, post_drift, ret, golden, flash, live, cmds>>
    /\ UNCHANGED <<textVars, snapVars, invVars, stallVars>>

\* the comprehension completes: snapshots is assigned and the dashboard is
\* rendered; main sleeps when watching, else goes on to detect_drift
SnapshotsDone ==
    /\ pc = "snapshot"
    /\ idx > Len(devices)
    /\ snapshots' = partial
    /\ partial' = <<>>
    /\ IF args.watch
       THEN pc' = "sleep" /\ UNCHANGED idx
       ELSE pc' = "detect" /\ idx' = 1
    /\ UNCHANGED <<args, inventory, devices, cycles, drift_data, drifted, answer,
                   outcomes, all_ok, post_drift, ret, golden, flash, live, sessions, cmds>>
    /\ UNCHANGED <<textVars, snapVars, invVars, stallVars>>

\* time.sleep(args.interval) returns and the watch loop starts over
WatchAgain ==
    /\ pc = "sleep"
    /\ cycles < MaxCycles
    /\ cycles' = cycles + 1
    /\ pc' = "snapshot"
    /\ idx' = 1
    /\ UNCHANGED <<args, inventory, devices, partial, snapshots, drift_data, drifted,
                   answer, outcomes, all_ok, post_drift, ret, golden, flash, live,
                   sessions, cmds>>
    /\ UNCHANGED <<textVars, snapVars, invVars, stallVars>>

\* KeyboardInterrupt inside the watch loop: the loop is left, the list under
\* construction is dropped and main goes on to detect_drift
Interrupt ==
    /\ args.watch
    /\ pc \in {"snapshot", "sleep"}
    /\ partial' = <<>>
    /\ pc' = "detect"
    /\ idx' = 1
    /\ UNCHANGED <<args, inventory, devices, snapshots, cycles, drift_data, drifted,
                   answer, outcomes, all_ok, post_drift, ret, golden, flash, live,
                   sessions, cmds>>
    /\ UNCHANGED <<textVars, snapVars, invVars, stallVars>>

\* one iteration of the loop of detect_drift(devices, args)
DetectStep ==
    /\ pc = "detect"
    /\ idx <= Len(devices)
    /\ DetectOne(devices[idx].name, drift_data, "detect")
    /\ idx' = idx + 1
    /\ UNCHANGED <<pc, args, inventory, devices, partial, snapshots, cycles, drifted,
                   answer, outcomes, all_ok, post_drift, ret, golden, flash, live, cmds>>
    /\ UNCHANGED <<textVars, snapVars, invVars, stallVars>>

\* variant: devices without a usable result are selected as well
DriftedOrUnknown(devs, data) ==
    SelectSeq(devs, LAMBDA d : data[d.name].drift \/ data[d.name].reason # NoReason)

Drifted(devs, data) == SelectSeq(devs, LAMBDA d : data[d.name].drift)

\* main, lines 453-464: the drifted list and the early returns
\* variant: detect_drift sits inside the watch loop
DetectDoneInsideLoop ==
    /\ pc = "detect"
    /\ idx > Len(devices)
    /\ drifted' = Drifted(devices, drift_data)
    /\ IF args.watch
       THEN /\ pc' = "sleep"
            /\ UNCHANGED ret
       ELSE IF args.no_restore \/ drifted' = <<>>
       THEN /\ ret' = IF drifted' # <<>> THEN 1 ELSE 0
            /\ pc' = "done"
       ELSE /\ pc' = "prompt"
            /\ UNCHANGED ret
    /\ UNCHANGED <<args, inventory, devices, idx, partial, snapshots, cycles, drift_data,
                   answer, outcomes, all_ok, post_drift, golden, flash, live,
                   sessions, cmds>>
    /\ UNCHANGED <<textVars, snapVars, invVars, stallVars>>

DetectDone ==
    /\ pc = "detect"
    /\ idx > Len(devices)
    /\ drifted' = Drifted(devices, drift_data)
    /\ IF args.no_restore \/ drifted' = <<>>
       THEN /\ ret' = IF drifted' # <<>> THEN 1 ELSE 0
            /\ pc' = "done"
       ELSE /\ pc' = "prompt"
            /\ UNCHANGED ret
    /\ UNCHANGED <<args, inventory, devices, idx, partial, snapshots, cycles, drift_data,
                   answer, outcomes, all_ok, post_drift, golden, flash, live,
                   sessions, cmds>>
    /\ UNCHANGED <<textVars, snapVars, invVars, stallVars>>

\* variant: the restore starts whatever the operator answers
ConfirmIgnored ==
    /\ pc = "prompt"
    /\ \E yes \in BOOLEAN :
          /\ answer' = IF yes THEN "yes" ELSE "no"
          /\ pc' = "restore"
          /\ idx' = 1
          /\ all_ok' = TRUE
          /\ UNCHANGED ret
    /\ UNCHANGED <<args, inventory, devices, partial, snapshots, cycles, drift_data,
                   drifted, outcomes, post_drift, golden, flash, live, sessions, cmds>>
    /\ UNCHANGED <<textVars, snapVars, invVars, stallVars>>

\* main, lines 466-472: Confirm.ask
Confirm ==
    /\ pc = "prompt"
    /\ \E yes \in BOOLEAN :
          IF yes
          THEN /\ answer' = "yes"
               /\ pc' = "restore"
               /\ idx' = 1
               /\ all_ok' = TRUE
               /\ UNCHANGED ret
          ELSE /\ answer' = "no"
               /\ ret' = 1
               /\ pc' = "done"
               /\ UNCHANGED <<idx, all_ok>>
    /\ UNCHANGED <<args, inventory, devices, partial, snapshots, cycles, drift_data,
                   drifted, outcomes, post_drift, golden, flash, live, sessions, cmds>>
    /\ UNCHANGED <<textVars, snapVars, invVars, stallVars>>

\* variant: the loop over drifted stops at the first failed restore
RestoredOrBreak(name, ok, message) ==
    /\ outcomes' = Append(outcomes, [name |-> name, ok |-> ok, message |-> message])
    /\ all_ok' = (all_ok /\ ok)
    /\ idx' = IF ok THEN idx + 1 ELSE Len(drifted) + 1
    /\ pc' = "restore"

\* main, lines 474-479: the outcome of one restore_golden call is recorded
\* and the loop moves to the next drifted device, or to the verifying pass
Restored(name, ok, message) ==
    /\ outcomes' = Append(outcomes, [name |-> name, ok |-> ok, message |-> message])
    /\ all_ok' = (all_ok /\ ok)
    /\ idx' = idx + 1
    /\ pc' = "restore"

NotFound == <<"n", "o", "t", " ", "f", "o", "u", "n", "d">>
DiskError == <<"d", "i", "s", "k">>
RestoredFrom == <<"R", "e", "s", "t", "o", "r", "e", "d">>

\* restore_golden, lines 400-405: the existence check and stage_golden_to_flash
\* variant: the replace is started without staging the baseline
RestoreUnstaged ==
    /\ pc = "restore"
    /\ idx <= Len(drifted)
    /\ LET name == drifted[idx].name
       IN  IF ~golden[name].exists THEN
               /\ Restored(name, FALSE, NotFound)
               /\ UNCHANGED flash
           ELSE
               /\ pc' = "replace"
               /\ UNCHANGED <<outcomes, all_ok, idx, flash>>
    /\ UNCHANGED <<args, inventory, devices, partial, snapshots, cycles, drift_data,
                   drifted, answer, post_drift, ret, golden, live, sessions, cmds>>
    /\ UNCHANGED <<textVars, snapVars, invVars, stallVars>>

RestoreStage ==
    /\ pc = "restore"
    /\ idx <= Len(drifted)
    /\ LET name == drifted[idx].name
       IN  IF ~golden[name].exists THEN
               /\ Restored(name, FALSE, NotFound)
               /\ UNCHANGED flash
           ELSE
               \/ /\ flash' = [flash EXCEPT ![name] = stage_golden_to_flash(@, golden[name])]
                  /\ pc' = "replace"
                  /\ UNCHANGED <<outcomes, all_ok, idx>>
               \/ /\ Restored(name, FALSE, DiskError)
                  /\ UNCHANGED flash
    /\ UNCHANGED <<args, inventory, devices, partial, snapshots, cycles, drift_data,
                   drifted, answer, post_drift, ret, golden, live, sessions, cmds>>
    /\ UNCHANGED <<textVars, snapVars, invVars, stallVars>>

ConfigureReplace == "configure replace"
WriteMemory == "write memory"

\* restore_golden, lines 406-410: node_for_device and the command batch.  The
\* batch can fail before the device runs anything, at configure replace
\* (the batch stops there), or at write memory; "configure replace" makes
\* the staged file the running configuration.
\* variant: the batch lacks write memory
ReplaceOnly == <<ConfigureReplace>>

\* restore_golden, line 407: the batch handed to node.enable
ReplaceBatch == <<ConfigureReplace, WriteMemory>>

RestoreReplace ==
    /\ pc = "replace"
    /\ LET name == drifted[idx].name
       IN  /\ sessions' = [sessions EXCEPT ![name] = Append(@, "restore")]
           /\ \/ /\ Restored(name, FALSE, ConnRefused)
                 /\ UNCHANGED <<cmds, live>>
              \/ /\ cmds' = [cmds EXCEPT ![name] = @ \o SubSeq(ReplaceBatch, 1, 1)]
                 /\ Restored(name, FALSE, ConnRefused)
                 /\ UNCHANGED live
              \/ /\ cmds' = [cmds EXCEPT ![name] = @ \o ReplaceBatch]
                 /\ live' = [live EXCEPT ![name] = flash[name].content]
                 /\ Restored(name, FALSE, ConnRefused)
              \/ /\ cmds' = [cmds EXCEPT ![name] = @ \o ReplaceBatch]
                 /\ live' = [live EXCEPT ![name] = flash[name].content]
                 /\ Restored(name, TRUE, RestoredFrom)
    /\ UNCHANGED <<args, inventory, devices, partial, snapshots, cycles, drift_data,
                   drifted, answer, post_drift, ret, golden, flash>>
    /\ UNCHANGED <<textVars, snapVars, invVars, stallVars>>

\* the loop over drifted is over: main calls detect_drift(drifted, args)
RestoreDone ==
    /\ pc = "restore"
    /\ idx > Len(drifted)
    /\ pc' = "verify"
    /\ idx' = 1
    /\ UNCHANGED <<args, inventory, devices, partial, snapshots, cycles, drift_data,
                   drifted, answer, outcomes, all_ok, post_drift, ret, golden, flash,
                   live, sessions, cmds>>
    /\ UNCHANGED <<textVars, snapVars, invVars, stallVars>>

\* one iteration of the loop of detect_drift(drifted, args)
VerifyStep ==
    /\ pc = "verify"
    /\ idx <= Len(drifted)
    /\ DetectOne(drifted[idx].name, post_drift, "verify")
    /\ idx' = idx + 1
    /\ UNCHANGED <<pc, args, inventory, devices, partial, snapshots, cycles, drift_data,
                   drifted, answer, outcomes, all_ok, ret, golden, flash, live, cmds>>
    /\ UNCHANGED <<textVars, snapVars, invVars, stallVars>>

Remaining(devs, data) == SelectSeq(devs, LAMBDA d : data[d.name].drift)

\* main, lines 482-490
Finish ==
    /\ pc = "verify"
    /\ idx > Len(drifted)
    /\ all_ok' = (all_ok /\ Remaining(drifted, post_drift) = <<>>)
    /\ ret' = IF all_ok' THEN 0 ELSE 1
    /\ pc' = "done"
    /\ UNCHANGED <<args, inventory, devices, idx, partial, snapshots, cycles, drift_data,
                   drifted, answer, outcomes, post_drift, golden, flash, live,
                   sessions, cmds>>
    /\ UNCHANGED <<textVars, snapVars, invVars, stallVars>>

\* the operator removes a baseline file once the detect pass has read it: at
\* the prompt or during the remediation (an earlier removal is a run that
\* starts without the file)
BaselineRemoved ==
    /\ pc \in {"prompt", "restore", "replace", "verify"}
    /\ \E h \in Hosts :
          /\ golden[h].exists
          /\ golden' = [golden EXCEPT ![h] = NoFile]
    /\ UNCHANGED <<pc, args, inventory, devices, idx, partial, snapshots, cycles,
                   drift_data, drifted, answer, outcomes, all_ok, post_drift, ret,
                   flash, live, sessions, cmds>>
    /\ UNCHANGED <<textVars, snapVars, invVars, stallVars>>


-----------------------------------------------------------------------------
(* Text-level harness: detect_drift's try body on one baseline/live pair *)

IdleText ==
    /\ tpc = "idle"
    /\ raw_golden = <<>>
    /\ raw_running = <<>>
    /\ tgolden = <<>>
    /\ trunning = <<>>
    /\ tdiff = <<>>
    /\ tdrift = FALSE
    /\ tagain = <<>>

InitTextVars ==
    /\ tpc = "input"
    /\ raw_golden \in Texts
    /\ raw_running \in Texts
    /\ tgolden = <<>>
    /\ trunning = <<>>
    /\ tdiff = <<>>
    /\ tdrift = FALSE
    /\ tagain = <<>>

DetectPair ==
    /\ tpc = "input"
    /\ trunning' = NormalizeRunning(raw_running)
    /\ tgolden' = NormalizeGolden(raw_golden)
    /\ tdiff' = config_diff(tgolden', trunning')
    /\ tdrift' = (Len(tdiff') > 0)
    /\ tpc' = "detected"
    /\ UNCHANGED <<raw_golden, raw_running, tagain>>
    /\ UNCHANGED <<snapVars, mainVars, invVars, stallVars>>

Renormalize ==
    /\ tpc = "detected"
    /\ tagain' = <<NormalizeGolden(tgolden), NormalizeRunning(trunning)>>
    /\ tpc' = "renormalized"
    /\ UNCHANGED <<raw_golden, raw_running, tgolden, trunning, tdiff, tdrift>>
    /\ UNCHANGED <<snapVars, mainVars, invVars, stallVars>>

InitText == InitTextVars /\ IdleSnap /\ IdleMain /\ IdleInv /\ IdleStall

NextText == DetectPair \/ Renormalize

SpecText == InitText /\ [][NextText]_vars

InitSnap == InitSnapVars /\ IdleText /\ IdleMain /\ IdleInv /\ IdleStall

NextSnap ==
    \/ Collect
    \/ Render

SpecSnap == InitSnap /\ [][NextSnap]_vars

InitInv == InitInvVars /\ IdleText /\ IdleSnap /\ IdleMain /\ IdleStall

NextInv ==
    \/ InvStart
    \/ InvEnter
    \/ InvLoop
    \/ InvReturn

\* the recursion is sequential code: a step that can be taken is taken
SpecInv == InitInv /\ [][NextInv]_vars /\ WF_vars(NextInv)

InitStall == InitStallVars /\ IdleText /\ IdleSnap /\ IdleMain /\ IdleInv

NextStall ==
    \/ StartCall
    \/ Tick
    \/ CallReturns
    \/ CallTimesOut
    \/ LoopEnds

SpecStall == InitStall /\ [][NextStall]_vars

-----------------------------------------------------------------------------
(* A run of main *)

Init == InitMainVars /\ IdleText /\ IdleSnap /\ IdleInv /\ IdleStall

Next ==
    \/ LoadInventory
    \/ SnapshotStep
    \/ SnapshotsDone
    \/ WatchAgain
    \/ Interrupt
    \/ DetectStep
    \/ DetectDone
    \/ Confirm
    \/ RestoreStage
    \/ RestoreReplace
    \/ RestoreDone
    \/ VerifyStep
    \/ Finish
    \/ BaselineRemoved

Spec == Init /\ [][Next]_vars

-----------------------------------------------------------------------------
(* Properties *)

Range(q) == {q[k] : k \in 1..Len(q)}

Names(devs) == {devs[k].name : k \in 1..Len(devs)}

Results(data) == {data[n] : n \in DOMAIN data}

\* a device for which remediation has been attempted or has had an effect
Remediated(h) ==
    \/ \E k \in 1..Len(outcomes) : outcomes[k].name = h
    \/ pc = "replace" /\ drifted[idx].name = h
    \/ flash[h].exists
    \/ cmds[h] # <<>>
    \/ "restore" \in Range(sessions[h])

\* C1: restore_golden is attempted only for devices whose result of the
\* detect pass has drift = true; a device with a non-empty reason is never
\* remediated; no device is remediated more than once per invocation.
C1_RemediateOnlyDrifted ==
    /\ \A h \in Hosts :
          Remediated(h) =>
             /\ h \in DOMAIN drift_data
             /\ drift_data[h].drift
             /\ drift_data[h].reason = NoReason
    /\ \A j, k \in 1..Len(outcomes) : outcomes[j].name = outcomes[k].name => j = k
    /\ \A h \in Hosts :
          /\ Len(SelectSeq(sessions[h], LAMBDA ph : ph = "restore")) <= 1
          /\ Len(SelectSeq(cmds[h], LAMBDA c : c = ConfigureReplace)) <= 1
    /\ pc = "replace" => \A k \in 1..Len(outcomes) : outcomes[k].name # drifted[idx].name

\* a finished run in which one device was unknown and was left alone while
\* another one was remediated
W_C1 ==
    /\ pc = "done"
    /\ answer = "yes"
    /\ \E h, g \in Hosts :
          /\ h \in DOMAIN drift_data
          /\ g \in DOMAIN drift_data
          /\ drift_data[h].reason # NoReason
          /\ ~Remediated(h)
          /\ \E k \in 1..Len(outcomes) : outcomes[k].name = g /\ outcomes[k].ok

Clean(result) == ~result.drift /\ result.reason = NoReason

\* C2: after a confirmed remediation main returns 0 only when every restore
\* succeeded and every remediated device was re-detected clean; a device
\* re-detected as drifted or unknown makes main return 1.
C2_ReturnZeroOnlyIfVerifiedClean ==
    (pc = "done" /\ answer = "yes" /\ ret = 0) =>
        /\ \A k \in 1..Len(outcomes) : outcomes[k].ok
        /\ \A h \in Names(drifted) : h \in DOMAIN post_drift /\ Clean(post_drift[h])

\* the lines of a text without their trailing whitespace and without the
\* blank lines before the first and after the last non-blank line
RECURSIVE DropLeadingBlank(_)
DropLeadingBlank(lines) ==
    IF lines # <<>> /\ lines[1] = <<>> THEN DropLeadingBlank(Tail(lines)) ELSE lines

RECURSIVE DropTrailingBlank(_)
DropTrailingBlank(lines) ==
    IF lines # <<>> /\ lines[Len(lines)] = <<>>
    THEN DropTrailingBlank(SubSeq(lines, 1, Len(lines) - 1))
    ELSE lines

Canonical(text) == DropTrailingBlank(DropLeadingBlank(MapRstrip(splitlines(text))))

\* C3: a baseline/live pair that differs only in trailing whitespace on
\* lines or in leading/trailing blank-line padding is reported with
\* drift = false and an empty diff.
C3_WhitespaceIsNoDrift ==
    (tpc = "detected" /\ Canonical(raw_golden) = Canonical(raw_running)) =>
        (~tdrift /\ tdiff = <<>>)

IsDrifted(result) == result.drift /\ result.reason = NoReason /\ result.diff # <<>>
IsUnknown(result) == result.reason # NoReason /\ ~result.drift /\ result.diff = <<>>
IsClean(result) == ~result.drift /\ result.reason = NoReason /\ result.diff = <<>>

\* C4: every result of detect_drift is drifted (drift, no reason, diff
\* non-empty), unknown (reason, no drift, empty diff) or clean (no drift, no
\* reason, empty diff); drift and a reason never hold together.
C4_ResultClasses ==
    \A result \in Results(drift_data) \cup Results(post_drift) :
        /\ IsDrifted(result) \/ IsUnknown(result) \/ IsClean(result)
        /\ ~(result.drift /\ result.reason # NoReason)

\* one pass that produced a drifted result and a failed fetch
W_C4 ==
    /\ \E result \in Results(drift_data) : IsDrifted(result)
    /\ \E result \in Results(drift_data) :
          IsUnknown(result) /\ result.reason.detail = ConnRefused

AllUnavailable(s) ==
    /\ s.model = NA
    /\ s.version = NA
    /\ s.uptime = NA
    /\ s.cpu = NA
    /\ s.temperature = NA
    /\ s.bgp = NA
    /\ s.mlag = NA

\* C5: a Snapshot returned with reachable = false has every other fact equal
\* to the unavailable sentinel and a non-empty error detail, whatever
\* exception caused the failure.
C5_UnreachableSnapshot ==
    (spc # "input" /\ ~snap.reachable) => (AllUnavailable(snap) /\ snap.error # <<>>)

\* C6: when the session can be opened, the snapshot is returned with
\* reachable = true and every field has the value its own query produced,
\* whichever other query failed.
C6_FieldIsolation ==
    (spc # "input" /\ ~Raised(senv.connect)) =>
        /\ snap.reachable
        /\ snap.cpu = read_cpu(senv.cpu)
        /\ snap.temperature = read_temperature(senv.temp)
        /\ snap.bgp = read_bgp_status(senv.bgp)
        /\ snap.mlag = read_mlag_status(senv.mlag)

\* the number a fact text shows, in tenths
Shown(text, unit) == ParseFloat(rstripChars(text, {unit})).tenths

\* C7: health_color is critical (red) when CPU >= 80 or temperature >= 80,
\* caution (yellow) when both are unavailable, nominal (green) otherwise.
C7_HealthColor ==
    (spc = "rendered" /\ snap.reachable) =>
        LET critical == \/ snap.cpu # NA /\ Shown(snap.cpu, "%") >= 800
                        \/ snap.temperature # NA /\ Shown(snap.temperature, "C") >= 800
            caution  == snap.cpu = NA /\ snap.temperature = NA
        IN  health = IF critical THEN "red"
                     ELSE IF caution THEN "yellow"
                     ELSE "green"

\* CPU unavailable and the temperature exactly at the threshold
W_C7 ==
    /\ spc = "rendered"
    /\ snap.reachable
    /\ snap.cpu = NA
    /\ snap.temperature = <<"8", "0", ".", "0", "C">>
    /\ health = "red"

SnapshotNames(snaps) == [k \in 1..Len(snaps) |-> snaps[k].name]

DeviceNames(devs) == [k \in 1..Len(devs) |-> devs[k].name]

\* C8: once the device list is resolved, no per-device failure aborts the
\* run: every completed snapshot pass has one snapshot per device, the detect
\* pass has a result for every device, a confirmed remediation has one
\* attempt and one verifying result per drifted device, and main returns 0
\* or 1.
C8_NoDeviceFailureAborts ==
    /\ snapshots # <<>> => SnapshotNames(snapshots) = DeviceNames(devices)
    /\ (pc = "detect" /\ ~args.watch) => snapshots # <<>>
    /\ pc \in {"prompt", "restore", "replace", "verify"} =>
          DOMAIN drift_data = Names(devices)
    /\ pc \in {"verify"} =>
          \A h \in Names(drifted) : \E k \in 1..Len(outcomes) : outcomes[k].name = h
    /\ (pc = "done" /\ devices # <<>>) =>
          /\ ret \in {0, 1}
          /\ DOMAIN drift_data = Names(devices)
          /\ answer = "yes" =>
                /\ \A h \in Names(drifted) : \E k \in 1..Len(outcomes) : outcomes[k].name = h
                /\ DOMAIN post_drift = Names(drifted)

\* a finished run: the first device was unreachable for its snapshot and its
\* restore failed, the second device was still restored
W_C8 ==
    /\ pc = "done"
    /\ Len(snapshots) = 2
    /\ ~snapshots[1].reachable
    /\ snapshots[2].reachable
    /\ Len(outcomes) = 2
    /\ ~outcomes[1].ok
    /\ outcomes[2].ok

NoRemediationEffect ==
    /\ outcomes = <<>>
    /\ \A h \in Hosts :
          /\ ~flash[h].exists
          /\ cmds[h] = <<>>
          /\ "restore" \notin Range(sessions[h])
          /\ "verify" \notin Range(sessions[h])

\* C9: the confirmation is presented only after detect_drift has a result
\* for every device; nothing is staged and no configuration command is
\* issued before it returns true; with --no-restore, or when the operator
\* declines, while drift exists nothing is staged, no command is issued and
\* main returns 1.
C9_ConfirmationGate ==
    /\ pc = "prompt" => (DOMAIN drift_data = Names(devices) /\ drifted # <<>>)
    /\ answer # "yes" => NoRemediationEffect
    /\ answer # "none" => ~args.no_restore
    /\ (pc = "done" /\ drifted # <<>> /\ (args.no_restore \/ answer = "no")) =>
          (ret = 1 /\ NoRemediationEffect)

\* the operator declined with two drifted devices
W_C9 ==
    /\ pc = "done"
    /\ answer = "no"
    /\ Len(drifted) = 2

\* the inventory query failed, the group is absent or it resolves to nothing
SetupFails ==
    LET r == load_inventory_devices(inventory, Group)
    IN  Raised(r) \/ r.ret = <<>>

\* C10: if the inventory query exits non-zero, the group is not found or it
\* resolves to an empty device set, main returns 2, no session is opened, no
\* drift detection runs and no remediation is attempted.
C10_SetupFailure ==
    (pc # "idle" /\ SetupFails) =>
        /\ pc \in {"start", "done"}
        /\ pc = "done" => ret = 2
        /\ sessions = NoSessions
        /\ drift_data = <<>>
        /\ post_drift = <<>>
        /\ NoRemediationEffect

\* the group exists and resolves to no device
W_C10 ==
    /\ pc = "done"
    /\ ret = 2
    /\ inventory.rc = 0
    /\ Group \in DOMAIN inventory.inv

NoDuplicates(q) == \A j, k \in 1..Len(q) : q[j] = q[k] => j = k

\* the groups reachable from a set of groups over children
ChildrenOf(inv, gs) ==
    UNION {Range(inv[g].children) : g \in gs \cap DOMAIN inv}

RECURSIVE Reachable(_, _)
Reachable(inv, found) ==
    LET more == found \cup ChildrenOf(inv, found)
    IN  IF more = found THEN found ELSE Reachable(inv, more)

HostsOf(inv, gs) == UNION {Range(inv[g].hosts) : g \in gs \cap DOMAIN inv}

\* what holds in every state of the resolution
GroupResolutionSafe ==
    /\ \A g \in Groups : ibody[g] <= 1
    /\ Len(istack) <= Cardinality(Groups)
    /\ ipc = "done" =>
          /\ NoDuplicates(iresult)
          /\ Range(iresult) = HostsOf(iinv, Reachable(iinv, {Group}))
          /\ iresult = sorted(collect_hosts(iinv, Group, {}).hosts)

\* C11: group resolution terminates for every inventory, cyclic ones
\* included, and returns a host list without duplicates; the body of
\* collect_hosts runs at most once per group, so a group visited a second
\* time contributes no hosts.
C11_GroupResolution == [](ipc # "idle" => GroupResolutionSafe) /\ <>(ipc \in {"idle", "done"})

\* a resolved inventory in which FABRIC and LEAFS are children of each other
\* and of themselves
W_C11 ==
    /\ ipc = "done"
    /\ "LEAFS" \in Range(iinv["FABRIC"].children)
    /\ "FABRIC" \in Range(iinv["FABRIC"].children)
    /\ "FABRIC" \in Range(iinv["LEAFS"].children)
    /\ Len(iresult) = 2

Count(q, x) == Cardinality({k \in 1..Len(q) : q[k] = x})

InWatchLoop == pc \in {"snapshot", "sleep"}

PastWatchLoop == pc \in {"detect", "prompt", "restore", "replace", "verify", "done"}

\* nothing of detection or remediation has happened
NothingDetectedOrRemediated ==
    /\ drift_data = <<>>
    /\ drifted = <<>>
    /\ outcomes = <<>>
    /\ post_drift = <<>>
    /\ \A h \in Hosts :
          /\ Range(sessions[h]) \subseteq {"snapshot"}
          /\ cmds[h] = <<>>
          /\ ~flash[h].exists

\* every state: the loop only snapshots; one detection and one restore per device
SingleShot ==
    /\ InWatchLoop => NothingDetectedOrRemediated
    /\ cycles > 0 => args.watch
    /\ \A h \in Hosts :
          /\ Count(sessions[h], "detect") <= 1
          /\ Count(sessions[h], "restore") <= 1
          /\ Count(sessions[h], "verify") <= 1

\* every step: once the loop is left no cycle is scheduled, and the
\* detection pass and the remediation phase are not entered again
NoRepeat ==
    /\ PastWatchLoop =>
          /\ pc' \notin {"start", "snapshot", "sleep"}
          /\ cycles' = cycles
          /\ snapshots' = snapshots
          /\ \A h \in Hosts : Count(sessions'[h], "snapshot") = Count(sessions[h], "snapshot")
    /\ (pc # "detect" /\ pc' = "detect") => InWatchLoop /\ drift_data = <<>>
    /\ (pc # "restore" /\ pc' = "restore") =>
          \/ pc = "prompt" /\ outcomes = <<>>
          \/ pc = "replace"
    /\ pc \in {"verify", "done"} => pc' \in {"verify", "done"} /\ outcomes' = outcomes
    /\ pc \in {"prompt", "restore", "replace", "verify", "done"} => drift_data' = drift_data

\* C12: in watch mode only snapshot+render repeats: while the watch loop
\* runs nothing is detected or remediated, after an operator interrupt no
\* further snapshot cycle is scheduled, and the detection pass and the
\* remediation phase each run at most once in an invocation.
C12_WatchRepeatsOnlySnapshots == []SingleShot /\ [][NoRepeat]_vars

\* a watching run that looped, was interrupted, detected and remediated
W_C12 ==
    /\ args.watch
    /\ cycles >= 1
    /\ pc = "done"
    /\ outcomes # <<>>
    /\ \E h \in Hosts : Count(sessions[h], "snapshot") >= 2 /\ Count(sessions[h], "detect") = 1

\* C13: drift normalization is idempotent: the normalization of
\* running_config applied to its own output, and that of load_golden_config
\* applied to its own output, give the same text again.
C13_NormalizationIdempotent ==
    tpc = "renormalized" => tagain[1] = tgolden /\ tagain[2] = trunning

\* both normalizations changed their input, to different multi-line texts,
\* and were applied a second time
W_C13 ==
    /\ tpc = "renormalized"
    /\ raw_golden # tgolden
    /\ raw_running # trunning
    /\ tgolden # trunning
    /\ Len(splitlines(trunning)) > 1
    /\ Len(splitlines(tgolden)) > 1

\* configure replace, then write memory
TwoCommands == <<ConfigureReplace, WriteMemory>>

IsPrefix(p, q) == Len(p) <= Len(q) /\ SubSeq(q, 1, Len(p)) = p

RemediationRan == pc = "done" /\ answer = "yes"

\* the verifying pass ran once, over the drifted devices and no others
OneVerifyPassOverDrifted ==
    /\ DOMAIN post_drift = Names(drifted)
    /\ \A h \in Hosts :
          /\ Count(sessions[h], "verify") <= 1
          /\ h \notin Names(drifted) => Count(sessions[h], "verify") = 0

\* C14 (as stated): for every device handed to remediation the run writes
\* exactly one staged file and issues exactly the two commands configure
\* replace and write memory, and one verifying pass covers the drifted
\* devices only.
C14_OneStageTwoCommandsPerDevice ==
    RemediationRan =>
        /\ \A h \in Names(drifted) : flash[h].writes = 1 /\ cmds[h] = TwoCommands
        /\ OneVerifyPassOverDrifted

\* C14 (amended): a device whose restore succeeded has exactly one staged
\* write and exactly the commands configure replace, write memory; a device
\* whose restore failed has at most one staged write and a prefix of that
\* batch, and none of either when the baseline was not found; a device not
\* handed to remediation has neither; one verifying pass covers the drifted
\* devices only.
C14_SideEffectsOfRemediation ==
    /\ \A h \in Hosts :
          /\ flash[h].writes <= 1
          /\ flash[h].exists <=> flash[h].writes = 1
          /\ IsPrefix(cmds[h], TwoCommands)
          /\ (h \notin Names(drifted) \/ answer # "yes") =>
                flash[h].writes = 0 /\ cmds[h] = <<>>
    /\ \A k \in 1..Len(outcomes) :
          /\ outcomes[k].name \in Names(drifted)
          /\ outcomes[k].ok =>
                /\ flash[outcomes[k].name].writes = 1
                /\ cmds[outcomes[k].name] = TwoCommands
          /\ outcomes[k].message = NotFound =>
                /\ flash[outcomes[k].name].writes = 0
                /\ cmds[outcomes[k].name] = <<>>
    /\ RemediationRan => OneVerifyPassOverDrifted

\* a finished remediation of two devices: one restored, one failed
W_C14 ==
    /\ RemediationRan
    /\ Len(outcomes) = 2
    /\ \E j, k \in 1..Len(outcomes) :
          /\ outcomes[j].ok
          /\ cmds[outcomes[j].name] = TwoCommands
          /\ flash[outcomes[j].name].writes = 1
          /\ ~outcomes[k].ok
          /\ cmds[outcomes[k].name] # TwoCommands

StagingFailed(o) == ~o.ok /\ o.message \in {NotFound, DiskError}

\* every state: commands only to a staged device, in batch order; no command
\* and no session after a failed staging; verification after all restores
StageReplacePersistVerify ==
    /\ \A h \in Hosts :
          /\ cmds[h] # <<>> => flash[h].exists /\ "restore" \in Range(sessions[h])
          /\ IsPrefix(cmds[h], TwoCommands)
          /\ "restore" \in Range(sessions[h]) => flash[h].exists
          /\ "verify" \in Range(sessions[h]) =>
                /\ pc \in {"verify", "done"}
                /\ Len(outcomes) = Len(drifted)
    /\ \A k \in 1..Len(outcomes) :
          /\ StagingFailed(outcomes[k]) =>
                /\ cmds[outcomes[k].name] = <<>>
                /\ "restore" \notin Range(sessions[outcomes[k].name])
          /\ (~outcomes[k].ok /\ ~StagingFailed(outcomes[k])) =>
                flash[outcomes[k].name].exists

\* every step: a command goes to the device being restored, after its
\* staging; a staged file is never removed or rewritten; verification
\* changes neither files nor devices
OrderedSteps ==
    /\ \A h \in Hosts :
          /\ cmds'[h] # cmds[h] =>
                /\ pc = "replace"
                /\ drifted[idx].name = h
                /\ flash[h].exists
                /\ flash[h].content = golden[h].content \/ ~golden[h].exists
          /\ flash[h].exists => flash'[h] = flash[h]
          /\ flash'[h] # flash[h] => pc = "restore" /\ cmds[h] = <<>>
    /\ pc \in {"verify", "done"} => cmds' = cmds /\ flash' = flash /\ live' = live

\* C15: within remediation a device's steps are ordered stage, replace,
\* persist, verify: configure replace is issued only after the baseline is
\* staged, write memory only after the replace, the verifying re-detection
\* only after both; a failed staging sends no command, and a failed batch
\* leaves the staged file in place.
C15_StageReplacePersistVerify == []StageReplacePersistVerify /\ [][OrderedSteps]_vars

\* a finished remediation: one device restored and verified, one whose batch
\* failed after staging
W_C15 ==
    /\ RemediationRan
    /\ \E j, k \in 1..Len(outcomes) :
          /\ outcomes[j].ok
          /\ cmds[outcomes[j].name] = TwoCommands
          /\ "verify" \in Range(sessions[outcomes[j].name])
          /\ ~outcomes[k].ok
          /\ ~StagingFailed(outcomes[k])
          /\ flash[outcomes[k].name].exists
          /\ Len(cmds[outcomes[k].name]) < 2

GoldenConfigMissing(info) ==
    /\ info.reason.text = "Golden config missing"
    /\ ~info.drift
    /\ info.diff = <<>>

\* a device of the detect pass without a baseline file is being visited
VisitsDeviceWithoutBaseline ==
    /\ pc = "detect"
    /\ idx <= Len(devices)
    /\ ~golden[devices[idx].name].exists
    /\ idx' = idx + 1

\* every step of detect_drift on such a device: the unknown result is
\* stored, nothing is sent, the loop goes on
MissingBaselineStep ==
    VisitsDeviceWithoutBaseline =>
        /\ devices[idx].name \in DOMAIN drift_data'
        /\ GoldenConfigMissing(drift_data'[devices[idx].name])
        /\ sessions' = sessions
        /\ cmds' = cmds
        /\ pc' = "detect"
        /\ \A h \in DOMAIN drift_data : drift_data'[h] = drift_data[h]

\* every state: a missing-baseline result is unknown and came without a
\* detect session; a finished pass has a result for every device
MissingBaselineResults ==
    /\ \A h \in DOMAIN drift_data :
          drift_data[h].reason.text = "Golden config missing" =>
              /\ GoldenConfigMissing(drift_data[h])
              /\ "detect" \notin Range(sessions[h])
              /\ h \notin Names(drifted)
    /\ pc \in {"prompt", "restore", "replace", "verify"} =>
          DOMAIN drift_data = Names(devices)

\* C16: during detect_drift a device whose baseline file is absent gets the
\* unknown result "Golden config missing" with drift false and an empty
\* diff, no session is opened and no command issued to it, and detection
\* continues with the remaining devices.
C16_MissingBaselineIsUnknown == []MissingBaselineResults /\ [][MissingBaselineStep]_vars

\* the first device had no baseline, the pass went on to the second
W_C16 ==
    /\ Len(devices) = 2
    /\ DOMAIN drift_data = Names(devices)
    /\ GoldenConfigMissing(drift_data[devices[1].name])
    /\ "detect" \notin Range(sessions[devices[1].name])
    /\ "detect" \in Range(sessions[devices[2].name])
    /\ drift_data[devices[2].name].drift

Pending(h) == qcall = h

\* C17: a timeout or stall of one device's network call does not block or
\* delay the other devices of the phase: while the call of a device is
\* pending and has made time pass, the operation of a device that has not
\* started yet can start.
C17_StallDoesNotBlockOthers ==
    \A a, b \in Range(qdevices) :
        (a # b /\ Pending(a) /\ qwaited > 0 /\ ~Started(b)) => CanStart(b)

====
